---------------------------- MODULE Spec2Model ----------------------------
(***************************************************************************)
(* Model of the SEO analysis API server: the Basic-auth header builder,    *)
(* the retrying DataForSEO caller and the POST /api/seo-analysis handler.  *)
(*                                                                         *)
(* JavaScript values are tagged records: undefined, null, NaN, numbers     *)
(* (field n), strings (field s, a sequence of one-character strings),      *)
(* arrays (field a) and objects (field f, a record of the own properties). *)
(***************************************************************************)
EXTENDS Integers, Sequences, FiniteSets, TLC

\* ------------------------------------------------------------------ bounds

\* Largest opts.retries value a direct caller of callDataForSeo passes.
MaxRetries == 4

\* Longest location_code string a request body carries.
MaxLocLen == 2

\* The longest items sequence given to the normalizer.
MaxItems == 2

\* The most items a response of the provider carries.
MaxSerpItems == 9

\* ------------------------------------------------------------ JS values

JUndef == [t |-> "undefined"]

JNull == [t |-> "null"]

JNaN == [t |-> "NaN"]

JNum(n) == [t |-> "number", n |-> n]

JStr(s) == [t |-> "string", s |-> s]

JArr(a) == [t |-> "array", a |-> a]

JObj(f) == [t |-> "object", f |-> f]

JBool(b) == [t |-> "boolean", b |-> b]

\* ToBoolean: undefined, null, NaN, 0 and "" are falsy, everything else truthy.
Truthy(v) ==
    CASE v.t = "undefined" -> FALSE
      [] v.t = "null" -> FALSE
      [] v.t = "NaN" -> FALSE
      [] v.t = "number" -> v.n # 0
      [] v.t = "string" -> v.s # <<>>
      [] v.t = "boolean" -> v.b
      [] OTHER -> TRUE

\* a || b
Or(a, b) == IF Truthy(a) THEN a ELSE b

\* Property access v.k may throw a TypeError: only on undefined and null.
Nullish(v) == v.t \in {"undefined", "null"}

\* v.k for a non-nullish v: an own property of an object, else undefined.
Get(v, k) == IF v.t = "object" /\ k \in DOMAIN v.f THEN v.f[k] ELSE JUndef

\* Array.isArray(v)
IsArray(v) == v.t = "array"

\* 2^k, as Math.pow(2, k) for k >= 0.
RECURSIVE Pow2(_)
Pow2(k) == IF k <= 0 THEN 1 ELSE 2 * Pow2(k - 1)


\* ------------------------------------------------------------ credentials

\* Character codes of the characters the configured secrets are made of.
CharCode(c) ==
    CASE c = "u" -> 117
      [] c = "p" -> 112
      [] c = "t" -> 116
      [] c = ":" -> 58
      [] c = " " -> 32
      [] OTHER -> 63

B64Chars ==
    << "A","B","C","D","E","F","G","H","I","J","K","L","M","N","O","P",
       "Q","R","S","T","U","V","W","X","Y","Z","a","b","c","d","e","f",
       "g","h","i","j","k","l","m","n","o","p","q","r","s","t","u","v",
       "w","x","y","z","0","1","2","3","4","5","6","7","8","9","+","/" >>

\* Buffer.from(s).toString('base64') on the byte sequence bs.
RECURSIVE Base64(_)
Base64(bs) ==
    IF bs = <<>> THEN <<>>
    ELSE LET n  == Len(bs)
             b1 == bs[1]
             b2 == IF n >= 2 THEN bs[2] ELSE 0
             b3 == IF n >= 3 THEN bs[3] ELSE 0
             c1 == b1 \div 4
             c2 == (b1 % 4) * 16 + (b2 \div 16)
             c3 == (b2 % 16) * 4 + (b3 \div 64)
             c4 == b3 % 64
         IN  << B64Chars[c1 + 1],
                B64Chars[c2 + 1],
                IF n >= 2 THEN B64Chars[c3 + 1] ELSE "=",
                IF n >= 3 THEN B64Chars[c4 + 1] ELSE "=" >>
             \o (IF n > 3 THEN Base64(SubSeq(bs, 4, n)) ELSE <<>>)

Bytes(s) == [i \in 1..Len(s) |-> CharCode(s[i])]

\* \s of the regular expression, on the characters of the model.
IsSpace(c) == c \in {" ", "\t", "\n"}

ToLower(c) ==
    CASE c = "B" -> "b"
      [] c = "A" -> "a"
      [] c = "S" -> "s"
      [] c = "I" -> "i"
      [] c = "C" -> "c"
      [] OTHER -> c

RECURSIVE DropSpaces(_)
DropSpaces(s) ==
    IF s # <<>> /\ IsSpace(s[1]) THEN DropSpaces(Tail(s)) ELSE s

\* precomputed.replace(/^(Basic\s*)/i, ''): one leading "Basic", in any case,
\* and the white space after it are removed.
StripBasic(s) ==
    IF Len(s) >= 5
       /\ [i \in 1..5 |-> ToLower(s[i])] = <<"b", "a", "s", "i", "c">>
    THEN DropSpaces(SubSeq(s, 6, Len(s)))
    ELSE s

BasicPrefix == <<"B", "a", "s", "i", "c", " ">>

\* A faulty variant: no throw when nothing is configured, the header is built
\* from the undefined secret ('Basic ' + process.env.DATAFORSEO_API_AUTH).
getDataForSeoAuthHeader_NoThrow(e) ==
    [ok |-> TRUE,
     value |-> BasicPrefix \o (IF Truthy(e.DATAFORSEO_API_AUTH)
                               THEN e.DATAFORSEO_API_AUTH.s
                               ELSE <<"undefined">>)]

\* A faulty variant: the precomputed credential wins over the pair.
getDataForSeoAuthHeader_PrecomputedFirst(e) ==
    LET login       == e.DATAFORSEO_LOGIN
        password    == e.DATAFORSEO_PASSWORD
        precomputed == e.DATAFORSEO_API_AUTH
    IN  IF Truthy(precomputed)
        THEN [ok |-> TRUE, value |-> BasicPrefix \o StripBasic(precomputed.s)]
        ELSE IF Truthy(login) /\ Truthy(password)
        THEN [ok |-> TRUE,
              value |-> BasicPrefix \o Base64(Bytes(login.s \o <<":">> \o password.s))]
        ELSE [ok |-> FALSE,
              error |-> [t |-> "error", name |-> "Error",
                         message |-> JStr(<<"Missing DataForSEO credentials.">>),
                         response |-> JUndef,
                         serverData |-> JUndef]]

\* getDataForSeoAuthHeader(): [ok |-> TRUE, value |-> header] when it returns,
\* [ok |-> FALSE, error |-> e] when it throws.
getDataForSeoAuthHeader(e) ==
    LET login       == e.DATAFORSEO_LOGIN
        password    == e.DATAFORSEO_PASSWORD
        precomputed == e.DATAFORSEO_API_AUTH
    IN  IF Truthy(login) /\ Truthy(password)
        THEN [ok |-> TRUE,
              value |-> BasicPrefix \o Base64(Bytes(login.s \o <<":">> \o password.s))]
        ELSE IF Truthy(precomputed)
        THEN [ok |-> TRUE, value |-> BasicPrefix \o StripBasic(precomputed.s)]
        ELSE [ok |-> FALSE,
              error |-> [t |-> "error", name |-> "Error",
                         message |-> JStr(<<"Missing DataForSEO credentials.">>),
                         response |-> JUndef,
                         serverData |-> JUndef]]

\* The process environments a deployment may configure.
Envs ==
    [DATAFORSEO_LOGIN    : {JUndef, JStr(<<"u">>)},
     DATAFORSEO_PASSWORD : {JUndef, JStr(<<"p">>)},
     DATAFORSEO_API_AUTH : {JUndef, JStr(<<"t">>), JStr(BasicPrefix \o <<"t">>),
                            JStr(BasicPrefix)}]

\* ------------------------------------------------- the provider's responses

Organic == JStr(<<"organic">>)

OrganicItem == JObj([type |-> Organic, rank_absolute |-> JNum(1)])

PaidItem == JObj([type |-> JStr(<<"paid">>), rank_absolute |-> JNum(2)])

\* One task of a response: its status and its result payload.
Task(result) ==
    JObj([status_code |-> JNum(20000), status_message |-> JStr(<<"Ok.">>),
          result |-> result])

\* The tasks member of a response body: missing, holding null, holding a task
\* with an empty result, holding a task with a paid and an organic item.
TaskShapes ==
    { JUndef,
      JArr(<<JNull>>),
      JArr(<<Task(JArr(<<>>))>>),
      JArr(<<Task(JArr(<<JObj([items |-> JArr(<<PaidItem, OrganicItem>>)])>>))>>) }

\* The tasks member of a response with MaxSerpItems organic items, ranked
\* 1, 2, ...
FullPage ==
    JArr(<<Task(JArr(<<JObj([items |-> JArr(
        [i \in 1..MaxSerpItems |->
            JObj([type |-> Organic, rank_absolute |-> JNum(i)])])])>>))>>)

StatusMessage(code) ==
    IF code = JUndef THEN JUndef
    ELSE IF code = JNum(20000) THEN JStr(<<"Ok.">>) ELSE JStr(<<"Error.">>)

Body(code, tasks) ==
    JObj([status_code |-> code, status_message |-> StatusMessage(code),
          tasks |-> tasks])

\* Top-level status codes: absent, 0, success, a logical rejection.
StatusCodes == {JUndef, JNum(0), JNum(20000), JNum(40501)}

\* Bodies of HTTP 2xx responses (null: an empty JSON body).
ResponseBodies ==
    {JNull}
    \cup {Body(c, tk) : c \in {JUndef, JNum(20000)}, tk \in TaskShapes}
    \cup {Body(JNum(20000), FullPage)}
    \cup {Body(c, JUndef) : c \in StatusCodes}

\* Bodies of HTTP error responses (axios rejects them): none, or a DataForSEO
\* error document.
ErrorBodies == {JStr(<<>>), Body(JNum(40100), JUndef)}

\* What one axios.post settles with.
Outcomes ==
    {[kind |-> "network"], [kind |-> "timeout"]}
    \cup {[kind |-> "http", data |-> d] : d \in ErrorBodies}
    \cup {[kind |-> "2xx", data |-> d] : d \in ResponseBodies}

\* ------------------------------------------------------------------- state

VARIABLES
    env,          \* process.env: the configured secrets
    sendPc,       \* callDataForSeo: idle, posting, waiting, returned, raised
    sendArgs,     \* its arguments: endpointPath, tasksArray, opts
    headers,      \* the headers it built
    maxAttempts,  \* its local maxAttempts
    baseDelay,    \* its local baseDelay
    attempt,      \* its loop counter
    lastErr,      \* its local lastErr
    sendOut,      \* the value it returned or the error it threw
    posts,        \* the axios.post calls it issued, in order
    waits,        \* the setTimeout delays it waited, in order
    log,          \* how each axios.post settled: "ok", "fail", "nocode"
    observed,     \* the last payload the provider sent during the call
    settled       \* what the latest settled axios.post settled with

sendVars ==
    << sendPc, sendArgs, headers, maxAttempts, baseDelay, attempt, lastErr,
       sendOut, posts, waits, log, observed, settled >>

\* ---------------------------------------------------------- callDataForSeo

DefaultAttempts == 3

DefaultBaseDelay == 500

DefaultTimeout == 30000

\* A faulty variant: retries counted on top of the first attempt.
MaxAttemptsOf_OneMore(o) == Or(o.retries, JNum(DefaultAttempts)).n + 1

\* const maxAttempts = opts.retries || 3
MaxAttemptsOf(o) == Or(o.retries, JNum(DefaultAttempts)).n

\* const baseDelay = opts.baseDelayMs || 500
BaseDelayOf(o) == Or(o.baseDelayMs, JNum(DefaultBaseDelay)).n

\* timeout: opts.timeout || 30000
TimeoutOf(o) == Or(o.timeout, JNum(DefaultTimeout)).n

\* A faulty variant: linear instead of exponential backoff.
BackoffDelay_Linear(base, k) == base * k

\* const delay = baseDelay * Math.pow(2, attempt - 1)
BackoffDelay(base, k) == base * Pow2(k - 1)

\* A faulty variant: the top-level status is not checked at all.
IsRejected_Never(data) == FALSE

\* The top-level status check: the response is thrown as an error.
IsRejected(data) ==
    /\ Truthy(data)
    /\ Truthy(Get(data, "status_code"))
    /\ Get(data, "status_code") # JNum(20000)

JsError(name, message, response, serverData) ==
    [t |-> "error", name |-> name, message |-> message, response |-> response,
     serverData |-> serverData]

\* String(v) inside a template literal, for the values a body carries.
Text(v) ==
    CASE v.t = "string" -> v.s
      [] v.t = "number" -> <<ToString(v.n)>>
      [] OTHER -> <<v.t>>

\* A faulty variant: the error is thrown without err.serverData.
RejectionError_NoData(data) ==
    [t |-> "error", name |-> "Error",
     message |-> [t |-> "string", s |-> <<"DataForSEO API Error">>],
     response |-> JUndef, serverData |-> JUndef]

\* new Error(`DataForSEO API Error: ${status_code} - ${status_message}`)
RejectionError(data) ==
    JsError("Error",
            JStr(<<"DataForSEO API Error: ">> \o Text(Get(data, "status_code"))
                 \o <<" - ">> \o Text(Get(data, "status_message"))),
            JUndef, data)

\* The error axios.post rejects with.
AxiosError(o) ==
    CASE o.kind = "network" ->
           JsError("AxiosError", JStr(<<"Network Error">>), JUndef, JUndef)
      [] o.kind = "timeout" ->
           JsError("AxiosError", JStr(<<"timeout exceeded">>), JUndef, JUndef)
      [] OTHER ->
           JsError("AxiosError", JStr(<<"Request failed with status code 500">>),
                   JObj([data |-> o.data]), JUndef)

\* A faulty variant: the HTTP error response's body is not looked at.
ServerDataOf_OwnOnly(err) == err.serverData

\* const serverData = err.response?.data || err.serverData
ServerDataOf(err) ==
    Or(IF Nullish(err.response) THEN JUndef ELSE Get(err.response, "data"),
       err.serverData)

\* A faulty variant: the loop gives up one attempt early.
IsLastAttempt_Early(k, max) == k + 1 >= max

\* if (attempt === maxAttempts)
IsLastAttempt(k, max) == k = max

\* The error thrown once the attempts are used up.
ExhaustedError(err) ==
    [t |-> "error", name |-> "Error",
     message |-> JStr(<<"DataForSEO request failed after retries: ">>
                      \o Or(err.message, JStr(<<"unknown">>)).s),
     response |-> JUndef,
     serverData |-> ServerDataOf(err),
     original |-> err]

UnexpectedError ==
    JsError("Error", JStr(<<"Unexpected error in callDataForSeo">>), JUndef, JUndef)

\* The request one axios.post sends.
PostRequest ==
    [path |-> sendArgs.endpointPath,
     body |-> JObj([tasks |-> sendArgs.tasksArray]),
     headers |-> headers,
     timeout |-> TimeoutOf(sendArgs.opts)]

\* The head of the for loop with attempt = k: one more axios.post while
\* k <= maxAttempts, else the throw after the loop.
LoopHead(k, max, req) ==
    IF k <= max
    THEN /\ sendPc' = "posting"
         /\ attempt' = k
         /\ posts' = Append(posts, req)
         /\ UNCHANGED sendOut
    ELSE /\ sendPc' = "raised"
         /\ sendOut' = Or(lastErr, UnexpectedError)
         /\ UNCHANGED << attempt, posts >>

\* opts = {}: the default of the parameter.
NoOpts == [retries |-> JUndef, baseDelayMs |-> JUndef, timeout |-> JUndef]

\* callDataForSeo(endpointPath, tasksArray, opts) up to its first await.
SendStart(endpointPath, tasksArray, o) ==
    LET auth == getDataForSeoAuthHeader(env)
    IN  /\ sendPc = "idle"
        /\ sendArgs' = [endpointPath |-> endpointPath, tasksArray |-> tasksArray,
                        opts |-> o]
        /\ IF ~auth.ok
           THEN /\ sendPc' = "raised"
                /\ sendOut' = auth.error
                /\ UNCHANGED << headers, maxAttempts, baseDelay, attempt, posts >>
           ELSE /\ headers' = [Authorization |-> auth.value,
                               ContentType |-> "application/json"]
                /\ maxAttempts' = MaxAttemptsOf(o)
                /\ baseDelay' = BaseDelayOf(o)
                /\ LoopHead(1, MaxAttemptsOf(o),
                            [path |-> endpointPath,
                             body |-> JObj([tasks |-> tasksArray]),
                             headers |-> [Authorization |-> auth.value,
                                          ContentType |-> "application/json"],
                             timeout |-> TimeoutOf(o)])
        /\ UNCHANGED << lastErr, waits, log, observed, settled >>

\* How the provider's answer counts: a 20000 body, a failure, or a body
\* without a status code.
OutcomeKind(o) ==
    IF o.kind # "2xx" THEN "fail"
    ELSE IF Truthy(o.data) /\ Get(o.data, "status_code") = JNum(20000) THEN "ok"
    ELSE IF IsRejected(o.data) THEN "fail"
    ELSE "nocode"

\* The payload an outcome carries, undefined when it carries none.
PayloadOf(o) == IF o.kind \in {"http", "2xx"} THEN o.data ELSE JUndef

\* A faulty variant of the catch block: the backoff is waited before the
\* test for the last attempt.
Catch_WaitsFirst(err) ==
    /\ lastErr' = err
    /\ waits' = Append(waits, BackoffDelay(baseDelay, attempt))
    /\ IF IsLastAttempt(attempt, maxAttempts)
       THEN /\ sendPc' = "raised"
            /\ sendOut' = ExhaustedError(err)
       ELSE /\ sendPc' = "waiting"
            /\ UNCHANGED sendOut

\* The catch block of the loop on error err.
Catch(err) ==
    /\ lastErr' = err
    /\ IF IsLastAttempt(attempt, maxAttempts)
       THEN /\ sendPc' = "raised"
            /\ sendOut' = ExhaustedError(err)
            /\ UNCHANGED waits
       ELSE /\ sendPc' = "waiting"
            /\ waits' = Append(waits, BackoffDelay(baseDelay, attempt))
            /\ UNCHANGED sendOut

\* The pending axios.post settles with outcome o and the loop body runs up to
\* its next await, return or throw.
PostSettles(o) ==
    /\ sendPc = "posting"
    /\ log' = Append(log, OutcomeKind(o))
    /\ settled' = o
    /\ observed' = IF Truthy(PayloadOf(o)) THEN PayloadOf(o) ELSE observed
    /\ IF o.kind = "2xx"
       THEN IF IsRejected(o.data)
            THEN Catch(RejectionError(o.data))
            ELSE /\ sendPc' = "returned"
                 /\ sendOut' = o.data
                 /\ UNCHANGED << lastErr, waits >>
       ELSE Catch(AxiosError(o))
    /\ UNCHANGED << sendArgs, headers, maxAttempts, baseDelay, attempt, posts >>

\* The backoff timer fires: attempt++ and the loop head again.
TimerFires ==
    /\ sendPc = "waiting"
    /\ LoopHead(attempt + 1, maxAttempts, PostRequest)
    /\ UNCHANGED << sendArgs, headers, maxAttempts, baseDelay, lastErr, waits,
                    log, observed, settled >>

SendInit ==
    /\ sendPc = "idle"
    /\ sendArgs = [endpointPath |-> "", tasksArray |-> JArr(<<>>),
                   opts |-> NoOpts]
    /\ headers = JUndef
    /\ maxAttempts = 0
    /\ baseDelay = 0
    /\ attempt = 0
    /\ lastErr = JUndef
    /\ sendOut = JUndef
    /\ posts = <<>>
    /\ waits = <<>>
    /\ log = <<>>
    /\ observed = JUndef
    /\ settled = [kind |-> "none"]

\* ------------------------------------------------------------- normalizer

\* A faulty variant of the filter: only the member type is looked at.
IsOrganic_TypeOnly(it) ==
    /\ Truthy(it)
    /\ it.t \in {"object", "array"}
    /\ Get(it, "type") = Organic

\* The filter of extractOrganicItemsFromDfResponse.
IsOrganic(it) ==
    /\ Truthy(it)
    /\ it.t \in {"object", "array"}
    /\ \/ Get(it, "type") = Organic
       \/ Get(it, "item_type") = Organic
       \/ /\ IsArray(Get(it, "item_types"))
          /\ \E i \in 1..Len(Get(it, "item_types").a) :
                Get(it, "item_types").a[i] = Organic

\* A faulty variant of the nested level: an entry's nested items are
\* themselves flattened, to any depth.
RECURSIVE NestedItems_Deep(_)
NestedItems_Deep(items) ==
    IF items = <<>> THEN <<>>
    ELSE LET it == Head(items)
             sub == IF Truthy(it) /\ IsArray(Get(it, "items"))
                    THEN Get(it, "items").a ELSE <<>>
         IN  sub \o NestedItems_Deep(sub) \o NestedItems_Deep(Tail(items))

\* items.flatMap(it => (it && Array.isArray(it.items) ? it.items : []))
RECURSIVE NestedItems(_)
NestedItems(items) ==
    IF items = <<>> THEN <<>>
    ELSE LET it == Head(items)
         IN  (IF Truthy(it) /\ IsArray(Get(it, "items"))
              THEN Get(it, "items").a ELSE <<>>)
             \o NestedItems(Tail(items))

\* A faulty variant: the first usable element of task.result is taken.
ResultObjOf_FirstUsable(task) ==
    LET result == Get(task, "result")
    IN  IF IsArray(result) /\ \E i \in DOMAIN result.a : Truthy(result.a[i])
        THEN result.a[CHOOSE i \in DOMAIN result.a :
                        /\ Truthy(result.a[i])
                        /\ \A j \in 1..(i - 1) : ~Truthy(result.a[j])]
        ELSE JNull

\* Array.isArray(task.result) && task.result.length > 0 ? task.result[0] : null
ResultObjOf(task) ==
    LET result == Get(task, "result")
    IN  IF IsArray(result) /\ Len(result.a) > 0 THEN result.a[1] ELSE JNull

\* The candidate pool: resultObj.items followed by the items nested one level
\* inside its entries.
CandidatePool(resultObj) ==
    LET direct == IF IsArray(Get(resultObj, "items"))
                  THEN Get(resultObj, "items").a ELSE <<>>
    IN  direct \o NestedItems(direct)

\* A faulty variant of the final choice: no fallback to the whole pool.
ChooseOutput_NoFallback(organic, items) == organic

\* organic.length > 0 ? organic : items
ChooseOutput(organic, items) == IF Len(organic) > 0 THEN organic ELSE items

\* extractOrganicItemsFromDfResponse(dfData): [ok |-> TRUE, value |-> what it
\* returns] or, when reading task.status_code of a null or undefined first
\* task throws, [ok |-> FALSE, error |-> e]. The member items is the local
\* items before the filter, empty when the function ends before building it.
extractOrganicItemsFromDfResponse(dfData) ==
    IF \/ ~Truthy(dfData)
       \/ ~IsArray(Get(dfData, "tasks"))
       \/ Len(Get(dfData, "tasks").a) = 0
    THEN [ok |-> TRUE, value |-> <<>>, items |-> <<>>]
    ELSE LET task == Get(dfData, "tasks").a[1]
         IN  IF Nullish(task)
             THEN [ok |-> FALSE,
                   error |-> JsError("TypeError",
                                     JStr(<<"Cannot read properties of ">>
                                          \o <<task.t>>),
                                     JUndef, JUndef),
                   items |-> <<>>]
             ELSE LET resultObj == ResultObjOf(task)
                  IN  IF ~Truthy(resultObj)
                      THEN [ok |-> TRUE, value |-> <<>>, items |-> <<>>]
                      ELSE LET items   == CandidatePool(resultObj)
                               organic == SelectSeq(items, IsOrganic)
                           IN  [ok |-> TRUE,
                                value |-> ChooseOutput(organic, items),
                                items |-> items]

VARIABLES
    normPc,    \* extractOrganicItemsFromDfResponse: idle, returned, raised
    normIn,    \* the dfData it was last called with
    normPool,  \* its local items before the filter
    normOut    \* what it returned

normVars == << normPc, normIn, normPool, normOut >>

\* One call of extractOrganicItemsFromDfResponse(d), from entry to return or
\* throw.
Extract(d) ==
    LET ex == extractOrganicItemsFromDfResponse(d)
    IN  /\ normPc = "idle"
        /\ normIn' = d
        /\ normPc' = IF ex.ok THEN "returned" ELSE "raised"
        /\ normPool' = ex.items
        /\ normOut' = IF ex.ok THEN ex.value ELSE <<>>

NormInit ==
    /\ normPc = "idle"
    /\ normIn = JUndef
    /\ normPool = <<>>
    /\ normOut = <<>>

\* ---------------------------------------------------------------- parseInt

Digits == <<"0", "1", "2", "3", "4", "5", "6", "7", "8", "9">>

IsDigit(c) == \E d \in 1..10 : Digits[d] = c

DigitValue(c) == (CHOOSE d \in 1..10 : Digits[d] = c) - 1

\* The value of the longest prefix of digits of s after acc, and whether a
\* digit was read at all.
RECURSIVE ReadDigits(_, _, _)
ReadDigits(s, acc, any) ==
    IF s # <<>> /\ IsDigit(s[1])
    THEN ReadDigits(Tail(s), 10 * acc + DigitValue(s[1]), TRUE)
    ELSE [value |-> acc, any |-> any]

\* parseInt(string): leading white space is skipped, a sign is read, then the
\* longest run of decimal digits; NaN when there is none.
ParseIntString(s) ==
    LET trimmed == DropSpaces(s)
        signed  == trimmed # <<>> /\ trimmed[1] \in {"-", "+"}
        sign    == IF trimmed # <<>> /\ trimmed[1] = "-" THEN -1 ELSE 1
        r       == ReadDigits(IF signed THEN Tail(trimmed) ELSE trimmed, 0, FALSE)
    IN  IF r.any THEN JNum(sign * r.value) ELSE JNaN

\* parseInt(v): v is converted to a string first; an integer number reads
\* back as itself, null reads as "null".
parseInt(v) ==
    CASE v.t = "string" -> ParseIntString(v.s)
      [] v.t = "number" -> v
      [] OTHER -> JNaN

\* ----------------------------------------------------------------- handler

VARIABLES
    hPc,       \* the handler: listening, awaitDfs, awaitAI, responded
    req,       \* req.body of the request being handled
    frame,     \* the handler's locals that outlive an await
    aiCalls,   \* the openai.completions.create calls issued, in order
    aiLog,     \* how each of them settled: "ok" or "error"
    res        \* the response sent: its status and JSON body

handlerVars == << hPc, req, frame, aiCalls, aiLog, res >>

VARIABLES
    parked,    \* a second request in progress: its handler's and its
               \* callDataForSeo's locals while the other one runs
    cur        \* which of the two requests the other variables describe

concVars == << parked, cur >>

vars == << env, sendVars, handlerVars, normVars, concVars >>

DefaultLocationCode == 2840

SerpSampleSize == 8

SnippetSize == 5

MaxTokens == 300

\* a.slice(0, n)
Slice(a, n) == SubSeq(a, 1, IF Len(a) < n THEN Len(a) ELSE n)

\* A faulty variant: the prompt gets as many items as the response snippet.
PromptSample_Snippet(serpData) == Slice(serpData, SnippetSize)

\* serpDataForAI = serpData.slice(0, 8)
PromptSample(serpData) == Slice(serpData, SerpSampleSize)

\* A destructuring default: it replaces undefined only.
Default(v, d) == IF v = JUndef THEN d ELSE v

\* A faulty variant: only the domain is validated.
IsInvalid_DomainOnly(body) == ~Truthy(body.domain)

\* if (!domain || !keyword)
IsInvalid(body) == ~Truthy(body.domain) \/ ~Truthy(body.keyword)

\* String.prototype.trim on a sequence of characters.
RECURSIVE DropTrailingSpaces(_)
DropTrailingSpaces(s) ==
    IF s # <<>> /\ IsSpace(s[Len(s)])
    THEN DropTrailingSpaces(SubSeq(s, 1, Len(s) - 1)) ELSE s

Trim(s) == DropTrailingSpaces(DropSpaces(s))

\* The task object posted to DataForSEO.
TaskPayload(body) ==
    JObj([keyword |-> body.keyword,
          location_code |-> parseInt(Default(body.location_code,
                                             JNum(DefaultLocationCode))),
          language_code |-> JStr(<<"en">>),
          device |-> JStr(<<"desktop">>),
          calculate_rectangles |-> JBool(FALSE),
          api |-> JStr(<<"serp">>),
          function |-> JStr(<<"live">>),
          se |-> JStr(<<"google">>),
          se_type |-> JStr(<<"organic">>)])

\* A faulty variant: no fallback to the error's message.
ErrorDetails_DataOnly(error) ==
    Or(error.serverData,
       IF Nullish(error.response) THEN JUndef ELSE Get(error.response, "data"))

\* error.serverData || error.response?.data || error.message
ErrorDetails(error) ==
    Or(Or(error.serverData,
          IF Nullish(error.response) THEN JUndef ELSE Get(error.response, "data")),
       error.message)

\* A faulty variant: a failure is answered with a placeholder report.
Respond500_Placeholder(error) ==
    /\ res' = [status |-> 200,
               body |-> JObj([success |-> JBool(TRUE),
                              analysis |-> JStr(<<"Analysis unavailable.">>),
                              details |-> ErrorDetails(error)])]
    /\ hPc' = "responded"

\* A faulty variant: the rejection is not caught, no response is sent.
Respond500_Unhandled(error) ==
    /\ hPc' = "failed"
    /\ UNCHANGED res

\* The catch block of the handler.
Respond500(error) ==
    /\ res' = [status |-> 500,
               body |-> JObj([success |-> JBool(FALSE),
                              error |-> JStr(<<"Failed to process SEO analysis.">>),
                              details |-> ErrorDetails(error)])]
    /\ hPc' = "responded"

\* aiResponse?.choices?.[0]?.text?.trim?.() || ''
AnalysisOf(aiResponse) ==
    LET choices == IF Nullish(aiResponse) THEN JUndef ELSE Get(aiResponse, "choices")
        first   == IF IsArray(choices) /\ Len(choices.a) > 0 THEN choices.a[1]
                   ELSE JUndef
        text    == IF Nullish(first) THEN JUndef ELSE Get(first, "text")
        trimmed == IF text.t = "string" THEN JStr(Trim(text.s)) ELSE JUndef
    IN  Or(trimmed, JStr(<<>>))

\* df_status of the success body.
DfStatus(d) ==
    LET tasks == Get(d, "tasks")
        task  == IF IsArray(tasks) /\ Len(tasks.a) > 0 THEN tasks.a[1] ELSE JUndef
    IN  JObj([top |-> IF Truthy(Get(d, "status_code"))
                      THEN JObj([status_code |-> Get(d, "status_code"),
                                 status_message |-> Get(d, "status_message")])
                      ELSE JNull,
              task |-> IF Truthy(task)
                       THEN JObj([status_code |-> Get(task, "status_code"),
                                  status_message |-> Get(task, "status_message")])
                       ELSE JNull])

\* What openai.completions.create settles with.
AiOutcomes ==
    { [kind |-> "error"],
      [kind |-> "ok", data |-> JObj([choices |-> JArr(<<JObj([text |->
                                        JStr(<<" ", "a", " ">>)])>>)])],
      [kind |-> "ok", data |-> JObj([choices |-> JArr(<<>>)])] }

\* The bodies a client posts: domain and keyword missing, empty or given,
\* location_code missing, null, a number, or a string of up to MaxLocLen
\* characters.
LocChars == {"7", "a", " "}

LocStrings == UNION {[1..n -> LocChars] : n \in 0..MaxLocLen}

RequestBodies ==
    [domain : {JUndef, JStr(<<>>), JStr(<<"d">>)},
     keyword : {JUndef, JStr(<<>>), JStr(<<"k">>)},
     location_code : {JUndef, JNull, JNum(DefaultLocationCode)}
                     \cup {JStr(s) : s \in LocStrings}]

\* app.post('/api/seo-analysis') from the request's arrival to the first
\* await: validation, then callDataForSeo up to its first axios.post.
ReceiveRequest(body) ==
    /\ hPc = "listening"
    /\ req' = body
    /\ IF IsInvalid(body)
       THEN /\ res' = [status |-> 400,
                       body |-> JObj([error |->
                                   JStr(<<"Domain and keyword are required.">>)])]
            /\ hPc' = "responded"
            /\ UNCHANGED << frame, sendVars >>
       ELSE /\ frame' = [domain |-> body.domain, keyword |-> body.keyword,
                         serpData |-> <<>>, df |-> JUndef]
            /\ SendStart("serp/google/organic/live/advanced",
                         JArr(<<TaskPayload(body)>>),
                         [retries |-> JNum(3), baseDelayMs |-> JUndef,
                          timeout |-> JUndef])
            /\ hPc' = "awaitDfs"
            /\ UNCHANGED res
    /\ UNCHANGED << env, aiCalls, aiLog, normVars, concVars >>

\* The handler resumes after await callDataForSeo(...): the catch block when
\* it threw; else the diagnostics, the extraction and the prompt, up to the
\* call of openai.completions.create.
DfsSettles ==
    /\ hPc = "awaitDfs"
    /\ sendPc \in {"returned", "raised"}
    /\ IF sendPc = "raised"
       THEN Respond500(sendOut) /\ UNCHANGED << frame, aiCalls >>
       ELSE IF Nullish(sendOut)
       THEN /\ Respond500(JsError("TypeError",
                                  JStr(<<"Cannot read properties of ">>
                                       \o <<sendOut.t>>),
                                  JUndef, JUndef))
            /\ UNCHANGED << frame, aiCalls >>
       ELSE LET ex == extractOrganicItemsFromDfResponse(sendOut)
            IN  IF ~ex.ok
                THEN Respond500(ex.error) /\ UNCHANGED << frame, aiCalls >>
                ELSE /\ frame' = [frame EXCEPT !.serpData = ex.value,
                                               !.df = sendOut]
                     /\ aiCalls' = Append(aiCalls,
                            [model |-> "gpt-3.5-turbo-instruct",
                             prompt |-> [keyword |-> frame.keyword,
                                         domain |-> frame.domain,
                                         sample |-> PromptSample(ex.value)],
                             max_tokens |-> MaxTokens])
                     /\ hPc' = "awaitAI"
                     /\ UNCHANGED res
    /\ UNCHANGED << env, req, aiLog, sendVars, normVars, concVars >>

\* A faulty variant: a failed openai.completions.create is issued again
\* while fewer than 1 + 3 calls were made.
AiSettles_Retry(o) ==
    /\ hPc = "awaitAI"
    /\ aiLog' = Append(aiLog, o.kind)
    /\ IF o.kind = "error" /\ Len(aiCalls) < 4
       THEN /\ aiCalls' = Append(aiCalls, aiCalls[Len(aiCalls)])
            /\ UNCHANGED << hPc, res >>
       ELSE /\ res' = [status |-> IF o.kind = "error" THEN 500 ELSE 200,
                       body |-> JObj([success |-> JBool(o.kind # "error")])]
            /\ hPc' = "responded"
            /\ UNCHANGED aiCalls
    /\ UNCHANGED << env, req, frame, sendVars, normVars, concVars >>

\* The handler resumes after await openai.completions.create(...).
AiSettles(o) ==
    /\ hPc = "awaitAI"
    /\ aiLog' = Append(aiLog, o.kind)
    /\ IF o.kind = "error"
       THEN Respond500(JsError("APIError", JStr(<<"Connection error.">>),
                               JUndef, JUndef))
       ELSE /\ res' = [status |-> 200,
                       body |-> JObj([success |-> JBool(TRUE),
                                      domain |-> frame.domain,
                                      keyword |-> frame.keyword,
                                      analysis |-> AnalysisOf(o.data),
                                      raw_data_snippet |->
                                          JArr(Slice(frame.serpData, SnippetSize)),
                                      df_status |-> DfStatus(frame.df)])]
            /\ hPc' = "responded"
    /\ UNCHANGED << env, req, frame, aiCalls, sendVars, normVars, concVars >>

HandlerInit ==
    /\ hPc = "listening"
    /\ req = JUndef
    /\ frame = JUndef
    /\ aiCalls = <<>>
    /\ aiLog = <<>>
    /\ res = JUndef

\* ---------------------------------------------------------- specifications

\* The server after start-up, handling one request.
\* The locals of the request the variables describe.
Context ==
    [sendPc |-> sendPc, sendArgs |-> sendArgs, headers |-> headers,
     maxAttempts |-> maxAttempts, baseDelay |-> baseDelay,
     attempt |-> attempt, lastErr |-> lastErr, sendOut |-> sendOut,
     posts |-> posts, waits |-> waits, log |-> log, observed |-> observed,
     settled |-> settled, hPc |-> hPc, req |-> req, frame |-> frame,
     aiCalls |-> aiCalls, aiLog |-> aiLog, res |-> res]

\* The variables take the locals c, the loop counter being a.
ResumeWith(c, a) ==
    /\ sendPc' = c.sendPc
    /\ sendArgs' = c.sendArgs
    /\ headers' = c.headers
    /\ maxAttempts' = c.maxAttempts
    /\ baseDelay' = c.baseDelay
    /\ attempt' = a
    /\ lastErr' = c.lastErr
    /\ sendOut' = c.sendOut
    /\ posts' = c.posts
    /\ waits' = c.waits
    /\ log' = c.log
    /\ observed' = c.observed
    /\ settled' = c.settled
    /\ hPc' = c.hPc
    /\ req' = c.req
    /\ frame' = c.frame
    /\ aiCalls' = c.aiCalls
    /\ aiLog' = c.aiLog
    /\ res' = c.res

\* A faulty variant: attempt is one counter of the module, not a local of
\* each call's loop.
Resume_SharedAttempt(c) == ResumeWith(c, attempt)

\* A callback of the other request runs: every local is that request's own.
Resume(c) == ResumeWith(c, c.attempt)

\* A faulty variant: the backoff is a synchronous sleep, which keeps the
\* event loop from running anything else.
Suspended_BlockingWait == sendPc # "waiting"

\* The request the variables describe is not running: it has not arrived, it
\* is at one of its awaits (axios.post, the setTimeout promise,
\* callDataForSeo, openai), or it is answered.
Suspended == sendPc \in {"idle", "posting", "waiting", "returned", "raised"}

\* The event loop turns to the other request.
Switch ==
    /\ Suspended
    /\ parked' = Context
    /\ Resume(parked)
    /\ cur' = 3 - cur
    /\ UNCHANGED << env, normVars >>

ConcInit ==
    /\ parked = Context
    /\ cur = 1

Init == env \in Envs /\ SendInit /\ HandlerInit /\ NormInit /\ ConcInit

Next ==
    \/ \E body \in RequestBodies : ReceiveRequest(body)
    \/ \E o \in Outcomes : PostSettles(o) /\ UNCHANGED << env, handlerVars, normVars, concVars >>
    \/ TimerFires /\ UNCHANGED << env, handlerVars, normVars, concVars >>
    \/ DfsSettles
    \/ \E o \in AiOutcomes : AiSettles(o)

Spec == Init /\ [][Next]_vars

\* A step of the request in progress: a pending axios.post or backoff timer
\* settles, the handler resumes after an await, the openai call settles. At
\* most one of them is pending at a time.
Settle ==
    \/ \E o \in Outcomes : PostSettles(o) /\ UNCHANGED << env, handlerVars, normVars, concVars >>
    \/ TimerFires /\ UNCHANGED << env, handlerVars, normVars, concVars >>
    \/ DfsSettles
    \/ \E o \in AiOutcomes : AiSettles(o)

\* Start-up with one configuration for each way getDataForSeoAuthHeader
\* ends: login and password, the precomputed credential alone, nothing.
FairInit ==
    /\ Init
    /\ env \in { [DATAFORSEO_LOGIN |-> JStr(<<"u">>),
                  DATAFORSEO_PASSWORD |-> JStr(<<"p">>),
                  DATAFORSEO_API_AUTH |-> JUndef],
                 [DATAFORSEO_LOGIN |-> JUndef,
                  DATAFORSEO_PASSWORD |-> JUndef,
                  DATAFORSEO_API_AUTH |-> JStr(<<"t">>)],
                 [DATAFORSEO_LOGIN |-> JUndef,
                  DATAFORSEO_PASSWORD |-> JUndef,
                  DATAFORSEO_API_AUTH |-> JUndef] }

\* The same server when whatever is pending eventually settles.
FairSpec == FairInit /\ [][Next]_vars /\ WF_vars(Settle)

\* callDataForSeo called on its own, with the opts a caller may pass.
RetryBudgets == {JUndef} \cup {JNum(n) : n \in 0..MaxRetries}

BaseDelays == {JUndef, JNum(0), JNum(100)}

DirectCall(o) ==
    /\ SendStart("serp/google/organic/live/advanced", JArr(<<>>), o)
    /\ UNCHANGED << env, handlerVars, normVars, concVars >>

SendNext ==
    \/ \E r \in RetryBudgets, b \in BaseDelays :
          DirectCall([retries |-> r, baseDelayMs |-> b, timeout |-> JUndef])
    \/ \E o \in Outcomes : PostSettles(o) /\ UNCHANGED << env, handlerVars, normVars, concVars >>
    \/ TimerFires /\ UNCHANGED << env, handlerVars, normVars, concVars >>

SendSpec == Init /\ [][SendNext]_vars

\* extractOrganicItemsFromDfResponse called on its own. The entries of an
\* items array: null, a string, unmarked objects, objects carrying each of the
\* three organic markers, and groups with nested items.
PlainItem == JObj([title |-> JStr(<<"a">>)])

ByItemType == JObj([item_type |-> Organic, rank_absolute |-> JNum(3)])

ByItemTypes == JObj([item_types |-> JArr(<<JStr(<<"paid">>), Organic>>)])

NestedPlain == JObj([title |-> JStr(<<"b">>)])

NestedOrganic == JObj([type |-> Organic, rank_absolute |-> JNum(4)])

Group ==
    JObj([type |-> JStr(<<"people_also_ask">>),
          items |-> JArr(<<NestedPlain, NestedOrganic>>)])

DeepOrganic == JObj([type |-> Organic, rank_absolute |-> JNum(5)])

InnerGroup ==
    JObj([type |-> JStr(<<"inner">>), items |-> JArr(<<DeepOrganic>>)])

DeepGroup ==
    JObj([type |-> JStr(<<"carousel">>), items |-> JArr(<<InnerGroup>>)])

MarkedGroup ==
    JObj([type |-> Organic, rank_absolute |-> JNum(6),
          items |-> JArr(<<NestedPlain>>)])

BadGroup == JObj([items |-> JStr(<<"x">>)])

Entries ==
    { JNull, JStr(<<"x">>), PlainItem, PaidItem, OrganicItem, ByItemType,
      ByItemTypes, Group, DeepGroup, MarkedGroup, BadGroup }

ItemSeqs == UNION {[1..n -> Entries] : n \in 0..MaxItems}

\* An organic item outside the first result object of the first task.
ElsewhereOrganic == JObj([type |-> Organic, rank_absolute |-> JNum(9)])

Elsewhere == JObj([items |-> JArr(<<ElsewhereOrganic>>)])

\* The tasks member with the items seq in the first result object of the
\* first task, optionally followed by a second result object, a second task.
TasksWith(seq, moreResults, moreTasks) ==
    JArr(<<Task(JArr(<<JObj([items |-> JArr(seq)])>>
                     \o (IF moreResults THEN <<Elsewhere>> ELSE <<>>)))>>
         \o (IF moreTasks THEN <<Task(JArr(<<Elsewhere>>))>> ELSE <<>>))

\* Values of dfData: nothing, bodies without usable tasks, tasks without a
\* usable result, and bodies with items.
NormInputs ==
    {JUndef, JNull}
    \cup {Body(JNum(20000), tk) :
            tk \in { JUndef, JStr(<<"x">>), JArr(<<>>), JArr(<<JNull>>),
                     JArr(<<JNull, Task(JArr(<<Elsewhere>>))>>),
                     JArr(<<JStr(<<"x">>)>>), JArr(<<JNum(0)>>),
                     JArr(<<Task(JArr(<<>>)), Task(JArr(<<Elsewhere>>))>>) }}
    \cup {Body(JNum(20000), JArr(<<Task(r)>>)) :
            r \in { JUndef, JNull, JStr(<<"x">>), JArr(<<>>), JArr(<<JNull>>),
                    JArr(<<JNull, Elsewhere>>), JArr(<<JStr(<<"x">>)>>),
                    JArr(<<JObj([total_count |-> JNum(0)])>>),
                    JArr(<<JObj([items |-> JNull])>>) }}
    \cup {Body(JNum(20000), TasksWith(seq, r, t)) :
            seq \in ItemSeqs, r \in BOOLEAN, t \in BOOLEAN}

NormNext ==
    \E d \in NormInputs :
        Extract(d) /\ UNCHANGED << env, sendVars, handlerVars, concVars >>

NormSpec == Init /\ [][NormNext]_vars

\* Two requests in progress at once. Each callback runs to its next await;
\* between two callbacks the event loop may turn to the other request.
ConcBodies ==
    { [domain |-> JStr(<<"d">>), keyword |-> JStr(<<"k">>),
       location_code |-> JUndef],
      [domain |-> JStr(<<"d">>), keyword |-> JStr(<<"k">>),
       location_code |-> JStr(<<"7">>)],
      [domain |-> JStr(<<"d">>), keyword |-> JUndef,
       location_code |-> JUndef] }

PaidAndOrganic ==
    JArr(<<Task(JArr(<<JObj([items |-> JArr(<<PaidItem, OrganicItem>>)])>>))>>)

\* A network failure, a logical rejection, a success with items.
ConcOutcomes ==
    { [kind |-> "network"],
      [kind |-> "2xx", data |-> Body(JNum(40501), JUndef)],
      [kind |-> "2xx", data |-> Body(JNum(20000), PaidAndOrganic)] }

ConcAiOutcomes ==
    { [kind |-> "error"],
      [kind |-> "ok", data |-> JObj([choices |-> JArr(<<JObj([text |->
                                        JStr(<<" ", "a", " ">>)])>>)])] }

\* A callback of the request the variables describe.
ConcStep ==
    \/ \E body \in ConcBodies : ReceiveRequest(body)
    \/ \E o \in ConcOutcomes :
          PostSettles(o) /\ UNCHANGED << env, handlerVars, normVars, concVars >>
    \/ TimerFires /\ UNCHANGED << env, handlerVars, normVars, concVars >>
    \/ DfsSettles
    \/ \E o \in ConcAiOutcomes : AiSettles(o)

ConcNext == ConcStep \/ Switch

ConcSpec == Init /\ [][ConcNext]_vars

\* ------------------------------------------------------------------ claims

\* The retry budget the caller asked for, 3 when opts.retries is not given.
RetryBudget ==
    IF sendArgs.opts.retries = JUndef THEN 3 ELSE sendArgs.opts.retries.n

\* The attempts callDataForSeo allows: the budget itself, 3 when it is 0 or
\* not given.
AllowedAttempts == IF RetryBudget = 0 THEN 3 ELSE RetryBudget

\* callDataForSeo threw after the provider failed every attempt it was given.
Exhausted ==
    /\ sendPc = "raised"
    /\ log # <<>>
    /\ \A i \in 1..Len(log) : log[i] = "fail"

\* C1 as stated: when every attempt fails, callDataForSeo has issued exactly
\* retryBudget + 1 POSTs when it raises its error (4 with the default budget).
C1_BudgetPlusOneAttempts == Exhausted => Len(posts) = RetryBudget + 1

\* C1 as the code has it: when every attempt fails, callDataForSeo has issued
\* exactly retryBudget POSTs when it raises its error, and exactly 3 when the
\* budget is 0 or not given; each of them failed.
C1_BudgetAttempts ==
    Exhausted => Len(posts) = AllowedAttempts /\ Len(log) = Len(posts)

C1_ThreeAttemptsForBudgetThree ==
    /\ Exhausted
    /\ sendArgs.opts.retries = JNum(3)
    /\ Len(posts) = 3

\* The provider failed the first n attempts and answered attempt n + 1 with
\* a 20000 body.
SucceededAfter(n) ==
    /\ Len(log) = n + 1
    /\ log[n + 1] = "ok"
    /\ \A i \in 1..n : log[i] = "fail"

\* For every n < retryBudget: once the provider has failed the first n
\* attempts and answered attempt n + 1 with success, callDataForSeo has
\* issued exactly n + 1 POSTs and has returned the body of that attempt; and
\* while only n < retryBudget attempts have failed it has not given up.
ReturnsFirstSuccess ==
    /\ \A n \in 0..(RetryBudget - 1) :
          SucceededAfter(n) =>
             /\ sendPc = "returned"
             /\ Len(posts) = n + 1
             /\ Len(waits) = n
             /\ sendOut = settled.data
    /\ \A n \in 1..(RetryBudget - 1) :
          (Len(log) = n /\ \A i \in 1..n : log[i] = "fail") => sendPc # "raised"

\* Once callDataForSeo has returned it stays returned: no POST and no wait
\* is added and the returned value stays.
NothingAfterReturn ==
    sendPc = "returned" =>
       /\ sendPc' = "returned"
       /\ posts' = posts
       /\ waits' = waits
       /\ sendOut' = sendOut

\* C2: for every n with 0 <= n < retryBudget, when the provider fails the
\* first n attempts and succeeds on attempt n + 1, callDataForSeo performs
\* exactly n + 1 POSTs, returns the body of that successful attempt, and
\* makes no attempt after it.
C2_ReturnsFirstSuccess == []ReturnsFirstSuccess /\ [][NothingAfterReturn]_vars

C2_SuccessOnLastBudgetedAttempt ==
    /\ sendArgs.opts.retries = JNum(3)
    /\ SucceededAfter(2)
    /\ sendPc = "returned"

\* The payload the failure of the final attempt carried, undefined when it
\* carried none or an empty one.
FinalPayload ==
    IF settled.kind \in {"http", "2xx"} /\ Truthy(settled.data)
    THEN settled.data ELSE JUndef

\* C3 as stated: the error raised on exhaustion carries the last payload
\* observed during the call whenever an attempt observed one, also when the
\* final attempt carried none.
C3_LastObservedPayloadKept ==
    (Exhausted /\ Truthy(observed)) => sendOut.serverData = observed

\* C3 as the code has it: the error raised on exhaustion carries the payload
\* of the final attempt's failure, and none when the final attempt failed
\* without a payload, whatever earlier attempts observed.
C3_FinalAttemptPayloadKept == Exhausted => sendOut.serverData = FinalPayload

C3_EarlierPayloadLost ==
    /\ Exhausted
    /\ Truthy(observed)
    /\ settled.kind = "timeout"
    /\ sendOut.serverData = JUndef

\* The top-level status code of a returned value, undefined when the value
\* is not an object or has none.
TopStatus(v) ==
    IF v.t = "object" /\ "status_code" \in DOMAIN v.f THEN v.f.status_code
    ELSE JUndef

\* C4 as stated: a value callDataForSeo returns has top-level status code
\* 20000.
C4_ReturnedIs20000 == sendPc = "returned" => TopStatus(sendOut) = JNum(20000)

\* C4 as the code has it: a value callDataForSeo returns is the body the
\* provider sent, and its top-level status code is 20000 or is absent or 0;
\* a body with any other status code is never returned.
C4_ReturnedIs20000OrNoCode ==
    sendPc = "returned" =>
       /\ sendOut = settled.data
       /\ TopStatus(sendOut) \in {JNum(20000), JUndef, JNum(0)}

C4_ReturnedWithoutCode ==
    /\ sendPc = "returned"
    /\ sendOut.t = "object"
    /\ TopStatus(sendOut) = JUndef

\* The latest POST was answered with HTTP 2xx and a body whose top-level
\* status code is present and not 20000.
LogicalRejection ==
    /\ settled.kind = "2xx"
    /\ TopStatus(settled.data) \notin {JNum(20000), JUndef, JNum(0)}
    /\ Len(log) = Len(posts)

\* The latest POST timed out or failed on the network.
TransportFailure ==
    /\ settled.kind \in {"timeout", "network"}
    /\ Len(log) = Len(posts)

\* What follows a failed attempt: the backoff wait when attempts remain,
\* the exhaustion error when none does.
FailedAttemptFollowUp ==
    /\ log[Len(log)] = "fail"
    /\ attempt = Len(posts)
    /\ IF Len(posts) < AllowedAttempts
       THEN sendPc = "waiting" /\ Len(waits) = Len(posts)
       ELSE sendPc = "raised" /\ Len(waits) = Len(posts) - 1

\* A rejected response and a transport failure are followed up alike, and
\* the error made for the rejected response carries its body.
RejectionIsFailedAttempt ==
    /\ LogicalRejection => FailedAttemptFollowUp /\ lastErr.serverData = settled.data
    /\ TransportFailure => FailedAttemptFollowUp

\* A backoff wait ends in the next attempt: one more POST, the attempt
\* counter one higher.
WaitEndsInNewAttempt ==
    (sendPc = "waiting" /\ sendPc' # "waiting") =>
       /\ sendPc' = "posting"
       /\ posts' = Append(posts, posts[Len(posts)])
       /\ attempt' = attempt + 1

NoCredentials ==
    /\ env.DATAFORSEO_LOGIN = JUndef \/ env.DATAFORSEO_PASSWORD = JUndef
    /\ env.DATAFORSEO_API_AUTH = JUndef

\* The response sent is an error response.
ErrorResponse ==
    /\ res.status \in {400, 500}
    /\ "error" \in DOMAIN res.body.f
    /\ "analysis" \notin DOMAIN res.body.f

\* C6: with no credential source configured, callDataForSeo fails with no
\* POST issued and no backoff waited, the text-generation provider is never
\* called, and the request is answered with an error response: while the
\* handler awaits callDataForSeo the call has already thrown.
C6_NoCredentialsNoAttempts ==
    NoCredentials =>
       /\ posts = <<>>
       /\ waits = <<>>
       /\ aiCalls = <<>>
       /\ sendPc \in {"idle", "raised"}
       /\ hPc \in {"listening", "awaitDfs", "responded"}
       /\ hPc = "awaitDfs" => sendPc = "raised"
       /\ hPc = "responded" => ErrorResponse

C6_ConfigurationErrorAnswered ==
    /\ NoCredentials
    /\ sendPc = "raised"
    /\ posts = <<>>
    /\ hPc = "responded"
    /\ res.status = 500

\* The base delay the caller asked for, 500 when opts.baseDelayMs is not
\* given (or 0).
GivenBaseDelay ==
    IF sendArgs.opts.baseDelayMs \in {JUndef, JNum(0)} THEN 500
    ELSE sendArgs.opts.baseDelayMs.n

\* C7: the k-th wait of a call, the one between failed attempt k and attempt
\* k + 1, is baseDelay * 2^(k-1): the first is baseDelay (500 by default) and
\* each next one is twice the one before; and exactly one wait lies between
\* two consecutive attempts.
C7_ExponentialBackoff ==
    /\ waits # <<>> => waits[1] = GivenBaseDelay
    /\ \A k \in 1..(Len(waits) - 1) : waits[k + 1] = 2 * waits[k]
    /\ sendPc = "posting" => Len(waits) = Len(posts) - 1
    /\ sendPc = "waiting" => Len(waits) = Len(posts)

C7_ThreeDefaultWaits ==
    /\ sendArgs.opts.baseDelayMs = JUndef
    /\ waits = <<500, 1000, 2000>>
    /\ Len(posts) = 4

\* A request body's field is missing or empty.
MissingOrEmpty(v) == v \in {JUndef, JStr(<<>>)}

\* C8: a request whose keyword or domain is missing or empty is answered 400
\* with an {error} body, and neither provider is called for it.
C8_InvalidRequestRejected ==
    (hPc # "listening" /\ (MissingOrEmpty(req.keyword) \/ MissingOrEmpty(req.domain)))
    => /\ hPc = "responded"
       /\ res.status = 400
       /\ DOMAIN res.body.f = {"error"}
       /\ sendPc = "idle"
       /\ posts = <<>>
       /\ aiCalls = <<>>

C8_MissingKeywordAnswered400 ==
    /\ hPc = "responded"
    /\ req.keyword = JUndef
    /\ req.domain = JStr(<<"d">>)
    /\ res.status = 400

\* A location_code that is a non-empty string without any digit.
NonNumeric(v) ==
    /\ v.t = "string"
    /\ v.s # <<>>
    /\ \A i \in 1..Len(v.s) : v.s[i] \notin {"0", "1", "2", "3", "4", "5", "6",
                                             "7", "8", "9"}

\* C9: for a request whose location_code is not integer-coercible no POST
\* is made to the provider, the text-generation provider is not called, and
\* the response, once sent, is a client error (400).
C9_NonNumericLocationRejected ==
    (hPc # "listening" /\ NonNumeric(req.location_code))
    => /\ posts = <<>>
       /\ aiCalls = <<>>
       /\ hPc = "responded" => res.status = 400

\* C10: once callDataForSeo has raised after using up its attempts, the
\* text-generation provider has not been and is not called for the request,
\* and the response, once sent, is the 500 error body, not a report.
C10_NoGenerationAfterUpstreamFailure ==
    Exhausted =>
       /\ aiCalls = <<>>
       /\ hPc \in {"awaitDfs", "responded"}
       /\ hPc = "responded" =>
             /\ res.status = 500
             /\ res.body.f.success = JBool(FALSE)
             /\ "analysis" \notin DOMAIN res.body.f

C10_UpstreamFailureAnswered500 ==
    /\ Exhausted
    /\ hPc = "responded"
    /\ res.status = 500
    /\ Len(posts) = 3

\* The text-generation stage has failed for good: a call to the provider
\* failed and the request has been answered.
GenerationFailed ==
    /\ hPc = "responded"
    /\ aiLog # <<>>
    /\ aiLog[Len(aiLog)] = "error"

\* C11 as stated: a failed call to the text-generation provider is retried,
\* so the stage has failed for good only after more than one call.
C11_GenerationRetried == GenerationFailed => Len(aiCalls) > 1

\* C11 as the code has it: the handler calls the text-generation provider at
\* most once per request; when that one call fails no further call is made
\* and no backoff is waited for it, and the request is answered 500 with
\* success false.
C11_GenerationCalledOnce ==
    /\ Len(aiCalls) <= 1
    /\ Len(aiLog) <= Len(aiCalls)
    /\ (aiLog # <<>> /\ aiLog[Len(aiLog)] = "error") =>
          /\ hPc = "responded"
          /\ Len(aiCalls) = 1
          /\ res.status = 500
          /\ res.body.f.success = JBool(FALSE)

C11_SingleFailedGeneration ==
    /\ GenerationFailed
    /\ aiLog = <<"error">>
    /\ Len(aiCalls) = 1
    /\ res.status = 500

\* A response has been sent exactly when the handler is done with the
\* request.
RespondedIffSent == (hPc = "responded") <=> (res # JUndef)

\* A response, once sent, is not followed by another one.
NoSecondResponse ==
    res # JUndef => (res' = res /\ hPc' = "responded")

\* C12: when every upstream call and backoff timer eventually settles, every
\* request received is eventually answered, whichever stage fails, and it is
\* answered once: the response sent is never replaced by a second one.
C12_EveryRequestAnsweredOnce ==
    /\ (hPc # "listening") ~> (hPc = "responded")
    /\ []RespondedIffSent
    /\ [][NoSecondResponse]_vars

\* A request answered after the normalizer threw on a null first task.
C12_AnsweredAfterNormalizerThrew ==
    /\ hPc = "responded"
    /\ sendPc = "returned"
    /\ aiCalls = <<>>
    /\ res.status = 500
    /\ Get(sendOut, "tasks") = JArr(<<JNull>>)

\* C13 as stated: extractOrganicItemsFromDfResponse never raises, whatever
\* the response value is. (It raises a TypeError when the first element of
\* tasks is null.)
C13_NormalizerNeverRaises == normPc # "raised"

\* The three organic markers of the specification.
HasOrganicMarker(it) ==
    /\ it.t = "object"
    /\ \/ "type" \in DOMAIN it.f /\ it.f.type = Organic
       \/ "item_type" \in DOMAIN it.f /\ it.f.item_type = Organic
       \/ /\ "item_types" \in DOMAIN it.f
          /\ it.f.item_types.t = "array"
          /\ \E i \in DOMAIN it.f.item_types.a : it.f.item_types.a[i] = Organic

MarkedIn(pool) == {i \in DOMAIN pool : HasOrganicMarker(pool[i])}

\* C14: when some entry of the candidate pool carries an organic marker, the
\* normalizer returns exactly the marked entries of the pool, in pool order.
C14_MarkedSubsequenceReturned ==
    (normPc = "returned" /\ MarkedIn(normPool) # {}) =>
        normOut = SelectSeq(normPool, HasOrganicMarker)

\* A pool holding an unmarked group between entries marked in two different
\* ways, with a marked nested entry appended.
C14_MarkedAmongUnmarked ==
    /\ normPc = "returned"
    /\ normPool = <<ByItemTypes, Group, NestedPlain, NestedOrganic>>
    /\ normOut = <<ByItemTypes, NestedOrganic>>

\* C15: when the candidate pool is not empty and none of its entries carries
\* an organic marker, the normalizer returns the whole pool, in pool order.
C15_FallbackToWholePool ==
    (normPc = "returned" /\ normPool # <<>> /\ MarkedIn(normPool) = {}) =>
        normOut = normPool

\* A pool of several unmarked entries, null among them, returned whole.
C15_UnmarkedPoolReturned ==
    /\ normPc = "returned"
    /\ normPool = <<PaidItem, JNull>>
    /\ normOut = normPool

\* What the specification puts in the candidate pool: the direct items of
\* the first result object of the first task, then the nested items of each.
FirstOf(v) == IF v.t = "array" /\ v.a # <<>> THEN v.a[1] ELSE JUndef

ItemsOf(v) ==
    IF v.t = "object" /\ "items" \in DOMAIN v.f /\ v.f.items.t = "array"
    THEN v.f.items.a ELSE <<>>

DirectItems == ItemsOf(FirstOf(Get(FirstOf(Get(normIn, "tasks")), "result")))

RECURSIVE OneLevelBelow(_, _)
OneLevelBelow(direct, i) ==
    IF i > Len(direct) THEN <<>>
    ELSE ItemsOf(direct[i]) \o OneLevelBelow(direct, i + 1)

\* C20: the candidate pool is the direct items of the first result object of
\* the first task followed by the nested items of each direct item, in order;
\* an entry two levels below a direct item, or one of another result object
\* or task, is never in the pool.
C20_OneLevelOfFlattening ==
    normPc = "returned" =>
        /\ normPool = DirectItems \o OneLevelBelow(DirectItems, 1)
        /\ \A i \in DOMAIN normPool :
              normPool[i] \notin {DeepOrganic, ElsewhereOrganic}

\* A response with a second result object and a second task, whose first
\* result object holds a group and a group of groups.
C20_DeepGroupFlattenedOnce ==
    /\ normPc = "returned"
    /\ Get(normIn, "tasks") = TasksWith(<<Group, DeepGroup>>, TRUE, TRUE)
    /\ normPool = <<Group, DeepGroup, NestedPlain, NestedOrganic, InnerGroup>>
    /\ normOut = <<NestedOrganic>>

\* The body of an error response: success false, an error string, details.
IsFailureBody(b) ==
    /\ Get(b, "success") = JBool(FALSE)
    /\ Get(b, "error").t = "string"
    /\ Get(b, "error").s # <<>>
    /\ Get(b, "details") \notin {JUndef, JNull}

\* C16: 200 with success true is sent only when callDataForSeo returned and
\* the text-generation call succeeded; 400 is sent exactly when keyword or
\* domain is missing or empty; a request whose callDataForSeo raised is
\* answered 500 or 502 with success false, an error string and details.
C16_StatusClassifiesOutcome ==
    hPc = "responded" =>
       /\ res.status \in {200, 400, 500}
       /\ (res.status = 200 \/ Get(res.body, "success") = JBool(TRUE)) =>
             /\ res.status = 200
             /\ Get(res.body, "success") = JBool(TRUE)
             /\ sendPc = "returned"
             /\ log[Len(log)] \in {"ok", "nocode"}
             /\ aiLog = <<"ok">>
       /\ res.status = 400 <=>
             (MissingOrEmpty(req.keyword) \/ MissingOrEmpty(req.domain))
       /\ sendPc = "raised" =>
             /\ res.status \in {500, 502}
             /\ IsFailureBody(res.body)

\* A request answered 500 after three network failures, the details being
\* the message of the error callDataForSeo raised.
C16_NetworkFailureAnswered ==
    /\ hPc = "responded"
    /\ Exhausted
    /\ settled.kind = "network"
    /\ res.status = 500
    /\ IsFailureBody(res.body)
    /\ Get(res.body, "details") = sendOut.message

PairConfigured ==
    env.DATAFORSEO_LOGIN # JUndef /\ env.DATAFORSEO_PASSWORD # JUndef

PrecomputedConfigured == env.DATAFORSEO_API_AUTH # JUndef

\* "Basic " and the base64 encoding of "u:p".
PairCredential == <<"B", "a", "s", "i", "c", " ", "d", "T", "p", "w">>

\* The precomputed credential in header form, its own "Basic " prefix, when
\* it has one, not repeated.
PrecomputedCredential ==
    IF env.DATAFORSEO_API_AUTH = JStr(<<"t">>)
    THEN <<"B", "a", "s", "i", "c", " ", "t">>
    ELSE env.DATAFORSEO_API_AUTH.s

\* C17: once callDataForSeo has resolved the credential, the header is the
\* one derived from login and password when both are configured, whatever
\* the precomputed credential is; it is the precomputed one only when the
\* pair is incomplete; with neither, the call has raised without a header
\* and without a POST.
C17_FirstMatchWins ==
    sendPc # "idle" =>
       /\ PairConfigured =>
             /\ headers # JUndef
             /\ headers.Authorization = PairCredential
       /\ (~PairConfigured /\ PrecomputedConfigured) =>
             /\ headers # JUndef
             /\ headers.Authorization = PrecomputedCredential
       /\ (~PairConfigured /\ ~PrecomputedConfigured) =>
             /\ headers = JUndef
             /\ sendPc = "raised"
             /\ posts = <<>>
             /\ sendOut.message = JStr(<<"Missing DataForSEO credentials.">>)

\* A POST sent with the pair's credential although a precomputed credential
\* is configured too.
C17_PairUsedDespitePrecomputed ==
    /\ PairConfigured
    /\ env.DATAFORSEO_API_AUTH = JStr(<<"t">>)
    /\ posts # <<>>
    /\ posts[1].headers.Authorization = PairCredential

\* C18 as stated: whenever the credential is resolved, its token, the part
\* after "Basic ", is not empty. (With only DATAFORSEO_API_AUTH = "Basic "
\* configured the header is "Basic " and the token is empty.)
C18_TokenNeverEmpty ==
    headers # JUndef => Len(headers.Authorization) > Len(BasicPrefix)

\* C19: the sample in the prompt given to the text-generation provider is
\* the first min(n, 8) records of the n the normalizer returned, in the same
\* order.
C19_PromptSampleIsPrefix ==
    aiCalls # <<>> =>
        LET out    == frame.serpData
            k      == IF Len(out) < 8 THEN Len(out) ELSE 8
            sample == aiCalls[1].prompt.sample
        IN  /\ Len(sample) = k
            /\ \A i \in 1..k : sample[i] = out[i]

\* A prompt built from a normalizer output of more than 8 records.
C19_LongOutputTruncated ==
    /\ aiCalls # <<>>
    /\ Len(frame.serpData) > 8
    /\ Len(aiCalls[1].prompt.sample) = 8
    /\ aiCalls[1].prompt.sample[8].f.rank_absolute = JNum(8)

\* The first task of the response given to the normalizer, its result.
FirstTask == FirstOf(Get(normIn, "tasks"))

FirstTaskResult == Get(FirstTask, "result")

\* The result payload is missing, not a sequence, empty, or starts with null.
NoUsableResult ==
    \/ FirstTaskResult.t # "array"
    \/ FirstTaskResult.a = <<>>
    \/ FirstTaskResult.a[1] = JNull

RaisesExhaustion == sendPc = "posting" /\ Exhausted'

\* C23: a backoff wait only ever separates two attempts. While an attempt is
\* pending, and once the call has returned or raised after posting, the waits
\* number one less than the attempts; during a wait they number the attempts
\* made, and fewer attempts than allowed were made; and the step in which the
\* last allowed attempt fails raises at once, adding no wait.
C23_NoWaitAfterFinalAttempt ==
    /\ [](sendPc = "posting" => Len(waits) = Len(posts) - 1)
    /\ []((sendPc \in {"returned", "raised"} /\ posts # <<>>) =>
             Len(waits) = Len(posts) - 1)
    /\ [](sendPc = "waiting" =>
             /\ Len(waits) = Len(posts)
             /\ Len(posts) < AllowedAttempts)
    /\ [][RaisesExhaustion => (waits' = waits /\ sendPc' = "raised")]_vars

\* A call of budget 4 that failed four times: four POSTs, three waits.
C23_FourAttemptsThreeWaits ==
    /\ Exhausted
    /\ sendArgs.opts.retries = JNum(4)
    /\ Len(posts) = 4
    /\ Len(waits) = 3

\* The failed attempts among the provider's replies to a request.
RECURSIVE Failures(_)
Failures(l) ==
    IF l = <<>> THEN 0
    ELSE (IF Head(l) = "fail" THEN 1 ELSE 0) + Failures(Tail(l))

\* The attempts of a request follow from the provider's replies to it: one
\* POST per reply, one more while a reply is pending, three at most.
OwnAttempts(c) ==
    /\ Len(c.posts) = Len(c.log) + (IF c.sendPc = "posting" THEN 1 ELSE 0)
    /\ Len(c.posts) <= 3
    /\ \A i \in DOMAIN c.posts :
          c.posts[i].body = JObj([tasks |-> JArr(<<TaskPayload(c.req)>>)])

\* The backoff delays of a request follow from its own failed attempts: 500,
\* 1000, one for each failed attempt but the third.
OwnBackoff(c) ==
    /\ Len(c.waits) = Failures(c.log) - (IF c.sendPc = "raised" /\ c.log # <<>>
                                         THEN 1 ELSE 0)
    /\ \A k \in DOMAIN c.waits : c.waits[k] = IF k = 1 THEN 500 ELSE 1000

\* The answer to a request follows from its own body and the replies to it.
OwnOutcome(c) ==
    c.hPc = "responded" =>
       /\ c.res.status = 400 <=>
             (MissingOrEmpty(c.req.keyword) \/ MissingOrEmpty(c.req.domain))
       /\ c.res.status = 200 <=> c.aiLog = <<"ok">>
       /\ c.res.status = 200 =>
             /\ c.log # <<>>
             /\ c.log[Len(c.log)] = "ok"
             /\ Get(c.res.body, "keyword") = c.req.keyword
       /\ c.sendPc = "raised" => c.res.status = 500

\* Both requests got the same body, as many replies of each kind in the same
\* order and the same latest reply, and are at the same await.
SameInputs ==
    /\ hPc = parked.hPc
    /\ sendPc = parked.sendPc
    /\ req = parked.req
    /\ log = parked.log
    /\ settled = parked.settled
    /\ aiLog = parked.aiLog

\* Both requests made the same attempts, waited the same delays and have the
\* same result of callDataForSeo and the same answer.
SameCourse ==
    /\ posts = parked.posts
    /\ waits = parked.waits
    /\ sendOut = parked.sendOut
    /\ res = parked.res

\* A request that has arrived and is not answered yet.
Pending(c) == c.hPc \in {"awaitDfs", "awaitAI"}

\* C22: with two requests interleaved in any way, each one's attempts,
\* backoff delays and answer follow from its own body and the replies to it,
\* two requests given the same body and replies have, at the same await, made
\* the same attempts and waits and have the same answer, and
\* while one request waits in backoff the event loop can turn to the other
\* and the other's next step can be taken.
C22_RequestsIndependent ==
    /\ \A c \in {Context, parked} :
          OwnAttempts(c) /\ OwnBackoff(c) /\ OwnOutcome(c)
    /\ SameInputs => SameCourse
    /\ sendPc = "waiting" => ENABLED Switch
    /\ (parked.sendPc = "waiting" /\ Pending(Context)) => ENABLED ConcStep

\* One request answered 200 after a single attempt while the other, which
\* arrived first, waits in its second backoff.
C22_AnsweredWhileOtherWaits ==
    /\ cur = 2
    /\ hPc = "responded"
    /\ res.status = 200
    /\ Len(posts) = 1
    /\ parked.sendPc = "waiting"
    /\ parked.waits = <<500, 1000>>
    /\ parked.req # req

=============================================================================
